---- MODULE Spec2Model ----
(***************************************************************************)
(* Model of the screenshot-to-HTML pipeline of the backend:                *)
(*   POST /screenshot (app/main.py)  ->  analyze_screenshot (app/llm.py)   *)
(*   ->  slice_image  ->  validate_and_optimize_slice  ->  model call.     *)
(* One run of the handler is modelled as a sequence of steps; pc is the    *)
(* position of the handler in its code.                                    *)
(***************************************************************************)
EXTENDS Integers, Sequences, FiniteSets, TLC

(* ---- program constants (app/llm.py) ---- *)
MAX_DIMENSION == 7990
MAX_BASE64_SIZE_BYTES == 5 * 1024 * 1024
JPEG_QUALITY == 85
MIN_QUALITY == 20
QUALITY_STEP == 5
MIME_TYPE == "data:image/jpeg;base64,"
SYSTEM_PROMPT == "SYSTEM_PROMPT"
MULTI_IMAGE_SYSTEM_PROMPT == "MULTI_IMAGE_SYSTEM_PROMPT"

(* ---- bounds of the model ---- *)
MaxSlices == 2
Delta == 1

(* Page heights: around every multiple of MAX_DIMENSION up to MaxSlices    *)
(* slices, plus the 20000-row page of the specification's scenario.        *)
Heights ==
  { h \in { k * MAX_DIMENSION + d : k \in 0..MaxSlices, d \in (0 - Delta)..Delta } :
        h >= 1 /\ h <= MaxSlices * MAX_DIMENSION } \cup {20000}

Widths == { MAX_DIMENSION - 1, MAX_DIMENSION }

(* Length of the base64 text of one JPEG encoding: at the limit, or one over. *)
EncodedLengths == { MAX_BASE64_SIZE_BYTES, MAX_BASE64_SIZE_BYTES + 1 }

Contents == { "<html>...</html>", " <html>x</html> " }

(* ---- values ---- *)
None == [kind |-> "None"]
Str(s) == [kind |-> "str", text |-> s]

NoExc == [type |-> "none", msg |-> ""]
Exc(t, m) == [type |-> t, msg |-> m]

(* what take_full_page_screenshot can return *)
CaptureResults ==
  {None} \cup
  { [kind |-> "png", width |-> w, height |-> h, decodable |-> d] :
        w \in Widths, h \in Heights, d \in BOOLEAN }

(* what client.chat.completions.create can do *)
ApiErrors == { "RateLimitError", "APITimeoutError", "APIError", "Exception" }
ResponseShapes ==
  { [kind |-> k, content |-> ""] :
        k \in { "null_response", "no_choices", "null_choice", "no_message",
                "content_none", "content_empty" } }
  \cup { [kind |-> "content", content |-> c] : c \in Contents }

VARIABLES pc, image_data, img, num_slices, slice_height, i, slice_img,
          slice_num, quality, attempts, slices, messages, calls, response,
          raised, generated_html, diag, http

vars == << pc, image_data, img, num_slices, slice_height, i, slice_img,
           slice_num, quality, attempts, slices, messages, calls, response,
           raised, generated_html, diag, http >>

(* ======================= pure parts of the code ======================= *)

(* variant: the check lets a dimension equal to the limit through *)
DimensionsExceedStrict(width, height) ==
  width > MAX_DIMENSION \/ height > MAX_DIMENSION

(* llm.py:70 *)
DimensionsExceed(width, height) ==
  width >= MAX_DIMENSION \/ height >= MAX_DIMENSION

(* variant: the size check is off by one byte *)
FitsLimitOffByOne(len) == len <= MAX_BASE64_SIZE_BYTES + 1

(* llm.py:81 *)
FitsLimit(len) == len <= MAX_BASE64_SIZE_BYTES

(* llm.py:75 *)
QualityAllowed(q) == q >= MIN_QUALITY

(* variant: the quality drops by two steps at a time *)
NextQualityDoubleStep(q) == q - 2 * QUALITY_STEP

(* llm.py:85 *)
NextQuality(q) == q - QUALITY_STEP

(* llm.py:108 *)
WithinLimits(height) == height <= MAX_DIMENSION

(* variant: one slice more than needed at exact multiples *)
NumSlicesFloorPlusOne(height) == height \div MAX_DIMENSION + 1

(* llm.py:112 *)
NumSlices(height) == (height + MAX_DIMENSION - 1) \div MAX_DIMENSION

(* llm.py:113 *)
SliceHeight(height, n) == height \div n

Min(a, b) == IF a <= b THEN a ELSE b

(* llm.py:119 *)
SliceTop(k, sh) == k * sh

(* llm.py:121 *)
SliceBottom(k, sh, height) == Min((k + 1) * sh, height)

(* llm.py:124: the crop box (0, top, width, bottom) *)
Crop(width, top, bottom) == [top |-> top, bottom |-> bottom, width |-> width]

(* the base64 text of the JPEG of a crop at a quality, of a given length *)
Encoded(s, q, len) ==
  [top |-> s.top, bottom |-> s.bottom, width |-> s.width, quality |-> q, len |-> len]

TextPart(fmt, args) == [type |-> "text", text |-> [fmt |-> fmt, args |-> args]]
ImagePart(seg) == [type |-> "image_url", image_url |-> [url |-> [prefix |-> MIME_TYPE, data |-> seg]]]

SINGLE_TEXT == "Please analyze this webpage screenshot and generate the HTML code to recreate it."
MULTI_TEXT == "Please analyze these webpage screenshot segments and generate the HTML code to recreate the complete page."
SEGMENT_LABEL == "Segment {i+1} of {len(image_slices)}:"

(* variant: the label counts segments from 0 *)
RECURSIVE SegmentPartsZeroBased(_, _)
SegmentPartsZeroBased(ss, k) ==
  IF k > Len(ss) THEN << >>
  ELSE << TextPart(SEGMENT_LABEL, << k - 1, Len(ss) >>), ImagePart(ss[k]) >>
       \o SegmentPartsZeroBased(ss, k + 1)

(* llm.py:175-185: the loop over enumerate(image_slices) *)
RECURSIVE SegmentParts(_, _)
SegmentParts(ss, k) ==
  IF k > Len(ss) THEN << >>
  ELSE << TextPart(SEGMENT_LABEL, << k, Len(ss) >>), ImagePart(ss[k]) >>
       \o SegmentParts(ss, k + 1)

(* llm.py:144 *)
IsSingle(ss) == Len(ss) = 1

(* llm.py:144-196 *)
ComposeMessages(ss) ==
  IF IsSingle(ss)
  THEN << [role |-> "system", content |-> SYSTEM_PROMPT],
          [role |-> "user",
           content |-> << TextPart(SINGLE_TEXT, << >>), ImagePart(ss[1]) >>] >>
  ELSE << [role |-> "system", content |-> MULTI_IMAGE_SYSTEM_PROMPT],
          [role |-> "user",
           content |-> << TextPart(MULTI_TEXT, << >>) >> \o SegmentParts(ss, 1)] >>

(* llm.py:211 *)
NoChoices(r) == r.kind \in { "null_response", "no_choices" }
(* llm.py:216 *)
NoMessage(r) == r.kind \in { "null_choice", "no_message" }
(* llm.py:222 *)
NoContent(r) == r.kind \in { "content_none", "content_empty" }

(* variant: the empty-content check is missing *)
ParseResultNoContentCheck(r) ==
  IF NoChoices(r) THEN None
  ELSE IF NoMessage(r) THEN None
  ELSE Str(r.content)

(* variant: the content is stripped of surrounding blanks before it is returned *)
Strip(c) == IF c = " <html>x</html> " THEN "<html>x</html>" ELSE c
ParseResultStripped(r) ==
  IF NoChoices(r) THEN None
  ELSE IF NoMessage(r) THEN None
  ELSE IF NoContent(r) THEN None
  ELSE Str(Strip(r.content))

(* llm.py:211-227: what analyze_screenshot returns for a response *)
ParseResult(r) ==
  IF NoChoices(r) THEN None
  ELSE IF NoMessage(r) THEN None
  ELSE IF NoContent(r) THEN None
  ELSE Str(r.content)

(* llm.py:212,217,223: the diagnostic line printed *)
ParseDiag(r) ==
  IF NoChoices(r) THEN "Error: Empty response from API"
  ELSE IF NoMessage(r) THEN "Error: No message in API response"
  ELSE IF NoContent(r) THEN "Error: Empty content in API response"
  ELSE ""

(* main.py:55 *)
CaptureFailed(d) == d = None

(* main.py:56-59, 80-81 *)
ErrorResponse ==
  [status |-> 500, success |-> FALSE,
   message |-> "Failed to capture screenshot. The URL might be invalid or the page might be blocking automated access.",
   image_data |-> None, generated_html |-> None]

(* variant: a failed generation is answered as a server error *)
GenerationFailedAsError(d) ==
  [status |-> 500, success |-> FALSE,
   message |-> "An unexpected error occurred",
   image_data |-> None, generated_html |-> None]

(* main.py:64-72 *)
GenerationFailedResponse(d) ==
  [status |-> 200, success |-> TRUE,
   message |-> "Screenshot captured but HTML generation failed",
   image_data |-> d, generated_html |-> None]

(* main.py:74-79 *)
GeneratedResponse(d, html) ==
  [status |-> 200, success |-> TRUE,
   message |-> "Screenshot captured and HTML generated successfully",
   image_data |-> d, generated_html |-> html]

NoResponse ==
  [status |-> 0, success |-> FALSE, message |-> "", image_data |-> None,
   generated_html |-> None]

NoImage == [width |-> 0, height |-> 0]
NoCrop == [top |-> 0, bottom |-> 0, width |-> 0]
NoApiResponse == [kind |-> "none", content |-> ""]

(* ============================== state ================================= *)
(* attempts is the log of the calls of img_slice.save (llm.py:77): one     *)
(* entry per encoding, with the slice number and the quality used.         *)

Init ==
  /\ pc = "capture"
  /\ image_data = None
  /\ img = NoImage
  /\ num_slices = 0
  /\ slice_height = 0
  /\ i = 0
  /\ slice_img = NoCrop
  /\ slice_num = 0
  /\ quality = 0
  /\ attempts = << >>
  /\ slices = << >>
  /\ messages = << >>
  /\ calls = 0
  /\ response = NoApiResponse
  /\ raised = NoExc
  /\ generated_html = None
  /\ diag = ""
  /\ http = NoResponse

(* main.py:54-59: await take_full_page_screenshot; a falsy result is HTTP 500 *)
Capture ==
  /\ pc = "capture"
  /\ \E r \in CaptureResults :
       /\ image_data' = r
       /\ IF CaptureFailed(r)
          THEN /\ http' = ErrorResponse
               /\ pc' = "done"
          ELSE /\ http' = http
               /\ pc' = "slice_image"
  /\ UNCHANGED << img, num_slices, slice_height, i, slice_img, slice_num,
                  quality, attempts, slices, messages, calls, response,
                  raised, generated_html, diag >>

(* llm.py:94-114: decode, open, measure, decide whether to split *)
OpenImage ==
  /\ pc = "slice_image"
  /\ IF ~image_data.decodable
     THEN /\ raised' = Exc("Exception", "cannot decode image")
          /\ pc' = "respond"
          /\ UNCHANGED << img, num_slices, slice_height, i, slice_img, slice_num >>
     ELSE /\ img' = [width |-> image_data.width, height |-> image_data.height]
          /\ raised' = raised
          /\ IF WithinLimits(image_data.height)
             THEN /\ slice_img' = Crop(image_data.width, 0, image_data.height)
                  /\ slice_num' = 0
                  /\ pc' = "validate"
                  /\ UNCHANGED << num_slices, slice_height, i >>
             ELSE /\ num_slices' = NumSlices(image_data.height)
                  /\ slice_height' = SliceHeight(image_data.height, NumSlices(image_data.height))
                  /\ i' = 0
                  /\ pc' = "crop"
                  /\ UNCHANGED << slice_img, slice_num >>
  /\ UNCHANGED << image_data, quality, attempts, slices, messages, calls,
                  response, generated_html, diag, http >>

(* llm.py:118-125: one iteration of the loop, up to the call of the validator *)
CropSlice ==
  /\ pc = "crop"
  /\ i < num_slices
  /\ slice_img' = Crop(img.width, SliceTop(i, slice_height),
                       SliceBottom(i, slice_height, img.height))
  /\ slice_num' = i + 1
  /\ pc' = "validate"
  /\ UNCHANGED << image_data, img, num_slices, slice_height, i, quality,
                  attempts, slices, messages, calls, response, raised,
                  generated_html, diag, http >>

(* llm.py:68-74: the dimension check of validate_and_optimize_slice *)
CheckDimensions ==
  /\ pc = "validate"
  /\ IF DimensionsExceed(slice_img.width, slice_img.bottom - slice_img.top)
     THEN /\ raised' = Exc("ImageValidationError", "dimensions exceed limit")
          /\ pc' = "respond"
          /\ quality' = quality
     ELSE /\ quality' = JPEG_QUALITY
          /\ pc' = "encode"
          /\ raised' = raised
  /\ UNCHANGED << image_data, img, num_slices, slice_height, i, slice_img,
                  slice_num, attempts, slices, messages, calls, response,
                  generated_html, diag, http >>

(* llm.py:75-85 and 126-128 / 109: one pass of the compression loop; on a   *)
(* fit the payload is returned to slice_image, which appends it and either  *)
(* goes on with the next slice or returns the list.                         *)
EncodeAttempt ==
  /\ pc = "encode"
  /\ QualityAllowed(quality)
  /\ \E len \in EncodedLengths :
       /\ attempts' = Append(attempts, [slice_num |-> slice_num, quality |-> quality])
       /\ IF FitsLimit(len)
          THEN /\ slices' = Append(slices, Encoded(slice_img, quality, len))
               /\ quality' = quality
               /\ IF slice_num = 0
                  THEN /\ pc' = "compose"
                       /\ i' = i
                  ELSE /\ i' = i + 1
                       /\ pc' = IF i + 1 < num_slices THEN "crop" ELSE "compose"
          ELSE /\ quality' = NextQuality(quality)
               /\ pc' = pc
               /\ UNCHANGED << slices, i >>
  /\ UNCHANGED << image_data, img, num_slices, slice_height, slice_img,
                  slice_num, messages, calls, response, raised,
                  generated_html, diag, http >>

(* llm.py:87: the loop ran out of quality levels *)
CannotCompress ==
  /\ pc = "encode"
  /\ ~QualityAllowed(quality)
  /\ raised' = Exc("ImageValidationError", "cannot be compressed to under 5MB")
  /\ pc' = "respond"
  /\ UNCHANGED << image_data, img, num_slices, slice_height, i, slice_img,
                  slice_num, quality, attempts, slices, messages, calls,
                  response, generated_html, diag, http >>

(* llm.py:142-196: build the request from the list of encoded slices *)
Compose ==
  /\ pc = "compose"
  /\ messages' = ComposeMessages(slices)
  /\ pc' = "call"
  /\ UNCHANGED << image_data, img, num_slices, slice_height, i, slice_img,
                  slice_num, quality, attempts, slices, calls, response,
                  raised, generated_html, diag, http >>

(* variant: a failed API call is tried once more *)
CallModelWithRetry ==
  /\ pc = "call"
  /\ calls' = calls + 1
  /\ \/ \E e \in ApiErrors :
          /\ IF calls = 0
             THEN /\ raised' = raised
                  /\ pc' = "call"
             ELSE /\ raised' = Exc(e, "api call failed")
                  /\ pc' = "respond"
          /\ response' = response
     \/ \E r \in ResponseShapes :
          /\ response' = r
          /\ pc' = "parse"
          /\ raised' = raised
  /\ UNCHANGED << image_data, img, num_slices, slice_height, i, slice_img,
                  slice_num, quality, attempts, slices, messages,
                  generated_html, diag, http >>

(* llm.py:199-208 and 229-245: the one API call; provider errors re-raise *)
CallModel ==
  /\ pc = "call"
  /\ calls' = calls + 1
  /\ \/ \E e \in ApiErrors :
          /\ raised' = Exc(e, "api call failed")
          /\ pc' = "respond"
          /\ response' = response
     \/ \E r \in ResponseShapes :
          /\ response' = r
          /\ pc' = "parse"
          /\ raised' = raised
  /\ UNCHANGED << image_data, img, num_slices, slice_height, i, slice_img,
                  slice_num, quality, attempts, slices, messages,
                  generated_html, diag, http >>

(* llm.py:211-227: validate the response shape and return *)
ParseResponse ==
  /\ pc = "parse"
  /\ generated_html' = ParseResult(response)
  /\ diag' = ParseDiag(response)
  /\ pc' = "respond"
  /\ UNCHANGED << image_data, img, num_slices, slice_height, i, slice_img,
                  slice_num, quality, attempts, slices, messages, calls,
                  response, raised, http >>

(* main.py:62-79: the handler's answer after analyze_screenshot *)
Respond ==
  /\ pc = "respond"
  /\ http' = IF raised # NoExc
             THEN GenerationFailedResponse(image_data)
             ELSE GeneratedResponse(image_data, generated_html)
  /\ pc' = "done"
  /\ UNCHANGED << image_data, img, num_slices, slice_height, i, slice_img,
                  slice_num, quality, attempts, slices, messages, calls,
                  response, raised, generated_html, diag >>

Next ==
  \/ Capture
  \/ OpenImage
  \/ CropSlice
  \/ CheckDimensions
  \/ EncodeAttempt
  \/ CannotCompress
  \/ Compose
  \/ CallModel
  \/ ParseResponse
  \/ Respond

Spec == Init /\ [][Next]_vars

(* ============================ properties ============================== *)

(* the quality levels the compression loop can use, highest first *)
AllQualities == << 85, 80, 75, 70, 65, 60, 55, 50, 45, 40, 35, 30, 25, 20 >>

(* the qualities at which slice number n was encoded, in order *)
QualitiesTried(n) ==
  LET sel == SelectSeq(attempts, LAMBDA a : a.slice_num = n)
  IN  [k \in 1..Len(sel) |-> sel[k].quality]

DimensionError == Exc("ImageValidationError", "dimensions exceed limit")
CompressError == Exc("ImageValidationError", "cannot be compressed to under 5MB")

CeilDiv(a, b) == IF a % b = 0 THEN a \div b ELSE a \div b + 1

(* slice_image has just returned its list to analyze_screenshot *)
SliceImageReturned == pc = "compose"

(* C1: for an image taller than MAX_DIMENSION that slice_image split, the  *)
(* spans of the returned segments start at row 0, each starts where the    *)
(* previous one ends, and the last one ends at row height.                 *)
C1_SpansCoverHeight ==
  (SliceImageReturned /\ img.height > MAX_DIMENSION) =>
     /\ slices[1].top = 0
     /\ \A k \in 1..(Len(slices) - 1) : slices[k + 1].top = slices[k].bottom
     /\ slices[Len(slices)].bottom = img.height

(* C2: a segment with both dimensions below MAX_DIMENSION either yields a  *)
(* payload of length <= MAX_BASE64_SIZE_BYTES, or fails as too large only  *)
(* after an encoding at each of the qualities 85, 80, ..., 20; no payload  *)
(* longer than the limit is ever returned.                                 *)
C2_PayloadWithinLimitOrAllTried ==
  /\ \A k \in 1..Len(slices) : slices[k].len <= 5242880
  /\ raised = CompressError =>
        /\ slice_img.width < MAX_DIMENSION
        /\ slice_img.bottom - slice_img.top < MAX_DIMENSION
        /\ QualitiesTried(slice_num) = AllQualities

(* C2 witness: the first slice came back with a payload exactly at the     *)
(* limit, the second one failed after all fourteen encodings.              *)
C2_Witness ==
  /\ raised = CompressError
  /\ Len(slices) = 1
  /\ slices[1].len = MAX_BASE64_SIZE_BYTES
  /\ QualitiesTried(2) = AllQualities

(* C6: an image with height <= MAX_DIMENSION (height = MAX_DIMENSION       *)
(* included) and width < MAX_DIMENSION, one of whose encodings fits the    *)
(* limit, comes back from slice_image as exactly one segment that spans    *)
(* the whole image.                                                        *)
C6_SingleSegmentWithinLimit ==
  (/\ img # NoImage
   /\ img.height <= MAX_DIMENSION
   /\ img.width < MAX_DIMENSION
   /\ pc \notin { "validate", "encode" }
   /\ raised # CompressError)
  => /\ Len(slices) = 1
     /\ slices[1].top = 0
     /\ slices[1].bottom = img.height
     /\ slices[1].width = img.width

(* C7: a segment with width >= MAX_DIMENSION or height >= MAX_DIMENSION    *)
(* is rejected with the validation error before any encoding of it.        *)
C7_OversizeFailsBeforeEncoding ==
  (/\ slice_img # NoCrop
   /\ pc # "validate"
   /\ (slice_img.width >= 7990 \/ slice_img.bottom - slice_img.top >= 7990))
  => /\ raised = DimensionError
     /\ QualitiesTried(slice_num) = << >>

(* C7 witness: no encoding was made at all, and the                       *)
(* rejected segment is a slice whose height equals MAX_DIMENSION.          *)
C7_Witness ==
  /\ raised = DimensionError
  /\ slice_img.width < MAX_DIMENSION
  /\ slice_img.bottom - slice_img.top = MAX_DIMENSION
  /\ attempts = << >>

Composed == messages # << >>

UserParts == messages[2].content

(* the image references of the user turn, in order *)
ImageRefs ==
  LET sel == SelectSeq(UserParts, LAMBDA part : part.type = "image_url")
  IN  [k \in 1..Len(sel) |-> sel[k].image_url.url.data]

(* C3: with one segment the request has the single-image system            *)
(* instruction and a user turn of one text followed by one image           *)
(* reference; with N > 1 segments it has the multi-segment system          *)
(* instruction and exactly N image references in input order, the i-th     *)
(* one right after the text label "Segment i of N", i counted from 1.      *)
C3_RequestShape ==
  Composed =>
    LET n == Len(slices)
    IN  /\ Len(messages) = 2
        /\ messages[1].role = "system"
        /\ messages[2].role = "user"
        /\ ImageRefs = slices
        /\ n = 1 =>
             /\ messages[1].content = "SYSTEM_PROMPT"
             /\ Len(UserParts) = 2
             /\ UserParts[1].type = "text"
             /\ UserParts[1].text.fmt = SINGLE_TEXT
             /\ UserParts[2].type = "image_url"
             /\ UserParts[2].image_url.url = [prefix |-> "data:image/jpeg;base64,", data |-> slices[1]]
        /\ n > 1 =>
             /\ messages[1].content = "MULTI_IMAGE_SYSTEM_PROMPT"
             /\ Len(UserParts) = 2 * n + 1
             /\ UserParts[1].type = "text"
             /\ UserParts[1].text.fmt = MULTI_TEXT
             /\ \A k \in 1..n :
                  /\ UserParts[2 * k].type = "text"
                  /\ UserParts[2 * k].text = [fmt |-> "Segment {i+1} of {len(image_slices)}:", args |-> << k, n >>]
                  /\ UserParts[2 * k + 1].type = "image_url"
                  /\ UserParts[2 * k + 1].image_url.url = [prefix |-> "data:image/jpeg;base64,", data |-> slices[k]]

(* C3 witness: a request for three segments *)
C3_Witness ==
  /\ Composed
  /\ Len(slices) = 3
  /\ Len(UserParts) = 7

MalformedKinds ==
  { "null_response", "no_choices", "null_choice", "no_message",
    "content_none", "content_empty" }

(* analyze_screenshot is over: it returned or raised *)
AnalyzeOver == pc \in { "respond", "done" } /\ image_data # None

(* C4 (as stated): a malformed response makes the API-call part fail with  *)
(* one of three distinct errors: EmptyResponseError for zero choices,      *)
(* NoMessageError for a first choice without message, EmptyContentError    *)
(* for empty or absent content.                                            *)
C4_DistinctClassifiedErrors ==
  AnalyzeOver =>
    /\ response.kind \in { "null_response", "no_choices" } => raised.type = "EmptyResponseError"
    /\ response.kind \in { "null_choice", "no_message" } => raised.type = "NoMessageError"
    /\ response.kind \in { "content_none", "content_empty" } => raised.type = "EmptyContentError"

(* C4 (amended): a malformed response does not make analyze_screenshot     *)
(* fail: in all three cases it raises nothing and returns None, and the    *)
(* cases differ only in the diagnostic line printed.                       *)
C4_MalformedReturnsNone ==
  (AnalyzeOver /\ response.kind \in MalformedKinds) =>
    /\ raised = NoExc
    /\ generated_html = None
    /\ response.kind \in { "null_response", "no_choices" } => diag = "Error: Empty response from API"
    /\ response.kind \in { "null_choice", "no_message" } => diag = "Error: No message in API response"
    /\ response.kind \in { "content_none", "content_empty" } => diag = "Error: Empty content in API response"

(* C4 witness: the content of the message was the empty string *)
C4_Witness ==
  /\ AnalyzeOver
  /\ response.kind = "content_empty"
  /\ generated_html = None
  /\ diag = "Error: Empty content in API response"

(* C5: a failed capture is answered with HTTP 500 and generation never     *)
(* starts; a failure of generation after a successful capture is answered  *)
(* with success = true, the captured screenshot and a null generated_html. *)
C5_CaptureErrorVersusPartialFailure ==
  /\ (image_data = None /\ pc # "capture") =>
        /\ pc = "done"
        /\ http.status = 500
        /\ ~http.success
        /\ img = NoImage /\ attempts = << >> /\ slices = << >>
        /\ messages = << >> /\ calls = 0
  /\ (pc = "done" /\ raised # NoExc) =>
        /\ image_data # None
        /\ http.status = 200
        /\ http.success
        /\ http.image_data = image_data
        /\ http.generated_html = None

(* C5 witness: the provider rate-limited the call and the handler answered *)
C5_Witness ==
  /\ pc = "done"
  /\ raised.type = "RateLimitError"
  /\ http.success
  /\ http.image_data = image_data

(* the segments a decoded image has to yield before the call *)
AllSegmentsNormalized ==
  /\ Len(slices) = (IF img.height <= 7990 THEN 1 ELSE CeilDiv(img.height, 7990))
  /\ \A k \in 1..(Len(slices) - 1) : slices[k].bottom <= slices[k + 1].top
  /\ \A k \in 1..Len(slices) :
       \E a \in 1..Len(attempts) :
          /\ attempts[a].quality = slices[k].quality
          /\ attempts[a].slice_num = (IF img.height <= 7990 THEN 0 ELSE k)

(* C9: one run issues at most one model call; the call comes after every   *)
(* segment was sliced and normalized, top to bottom, and carries all of    *)
(* them; a failed normalization means no call; a failed call or a          *)
(* malformed response is not followed by a second call.                    *)
C9_SingleCallAfterAllSegments ==
  /\ [](calls <= 1)
  /\ [](raised.type = "ImageValidationError" => calls = 0)
  /\ [][calls' # calls =>
          /\ calls = 0 /\ calls' = 1
          /\ raised = NoExc
          /\ AllSegmentsNormalized
          /\ Composed /\ ImageRefs = slices]_vars
  /\ [][(calls = 1 /\ (raised # NoExc \/ response.kind \in MalformedKinds))
          => calls' = 1]_vars

(* C9 witness: the one call for a three-segment page failed with a timeout *)
C9_Witness ==
  /\ calls = 1
  /\ Len(slices) = 3
  /\ raised.type = "APITimeoutError"
  /\ pc = "done"

(* C10: a response whose first choice has non-empty content makes          *)
(* analyze_screenshot return that content unchanged, and the /screenshot   *)
(* answer carries it as generated_html with the captured screenshot as     *)
(* image_data.                                                             *)
C10_ContentReturnedVerbatim ==
  (AnalyzeOver /\ response.kind = "content") =>
    /\ raised = NoExc
    /\ generated_html = [kind |-> "str", text |-> response.content]
    /\ pc = "done" =>
         /\ http.status = 200
         /\ http.generated_html = [kind |-> "str", text |-> response.content]
         /\ http.image_data = image_data

(* C10 witness: content with surrounding blanks reached the answer *)
C10_Witness ==
  /\ pc = "done"
  /\ response = [kind |-> "content", content |-> " <html>x</html> "]
  /\ http.generated_html = Str(" <html>x</html> ")

(* the number under which the k-th returned segment was normalized *)
SliceNumOf(k) == IF img.height <= 7990 THEN 0 ELSE k

IsPrefix(a, b) == Len(a) <= Len(b) /\ \A k \in 1..Len(a) : a[k] = b[k]

(* C11: the compression loop encodes at 85, 80, 75, ..., 20 in that order, *)
(* stops at the first quality whose encoded length is within the limit and *)
(* returns that payload, and makes at most 14 encodings per segment.       *)
C11_QualityLadder ==
  /\ \A n \in 0..Len(attempts) :
       /\ IsPrefix(QualitiesTried(n), AllQualities)
       /\ Len(QualitiesTried(n)) <= 14
  /\ \A k \in 1..Len(slices) :
       LET tried == QualitiesTried(SliceNumOf(k))
       IN  /\ tried # << >>
           /\ slices[k].quality = tried[Len(tried)]
           /\ slices[k].len <= 5242880
           /\ IsPrefix(tried, AllQualities)
  /\ pc = "encode" =>
       LET tried == QualitiesTried(slice_num)
       IN  quality = 85 - 5 * Len(tried)

(* C11 witness: a segment that first fits at quality 40 was returned after *)
(* the encodings 85, 80, ..., 40.                                          *)
C11_Witness ==
  /\ Len(slices) = 1
  /\ slices[1].quality = 40
  /\ QualitiesTried(SliceNumOf(1)) = << 85, 80, 75, 70, 65, 60, 55, 50, 45, 40 >>

(* C12: for an image with width < MAX_DIMENSION and height > MAX_DIMENSION *)
(* (exact multiples of MAX_DIMENSION included) every cropped segment has   *)
(* height < MAX_DIMENSION, so the dimension check never rejects a segment  *)
(* that the slicer produced.                                               *)
C12_SlicesPassDimensionCheck ==
  (/\ img.width < MAX_DIMENSION
   /\ img.height > MAX_DIMENSION
   /\ slice_img # NoCrop)
  => /\ slice_img.bottom - slice_img.top < MAX_DIMENSION
     /\ raised # DimensionError

SuccessMessage == "Screenshot captured and HTML generated successfully"
FailureMessage == "Screenshot captured but HTML generation failed"

(* C13: an answer with the message "Screenshot captured and HTML generated *)
(* successfully" has a non-empty document as generated_html; whenever      *)
(* generation produced no document (zero choices, a missing message or     *)
(* empty content included) the answer has the message "Screenshot captured *)
(* but HTML generation failed".                                            *)
C13_SuccessMessageMeansDocument ==
  pc = "done" =>
    /\ http.message = SuccessMessage =>
         /\ http.generated_html # None
         /\ http.generated_html.text # ""
    /\ (image_data # None /\ http.generated_html = None) =>
         http.message = FailureMessage

====
